---- MODULE Spec2Model ----
(***************************************************************************)
(* The conversation-to-ledger workflow of pachicoApp: the LangGraph node   *)
(* graph of my_agent/graph.py, its nodes (my_agent/utils/nodes.py), the    *)
(* tools they call (my_agent/utils/tools.py) and the repository that       *)
(* writes the food log and the daily totals (database/ops.py, schema.py).  *)
(*                                                                         *)
(* Several turns run concurrently, one per session; each owns its          *)
(* AgentState.  The database is the only state they share.                 *)
(*                                                                         *)
(* Python values are tagged records: the field "py" names the type and a   *)
(* type-specific field holds the value.  Numbers of the nutrition domain   *)
(* are fixed-point with one decimal digit: Dec(1, 1) stands for 1.1.       *)
(***************************************************************************)
EXTENDS Integers, Sequences, FiniteSets, TLC

VARIABLES
    users,          \* table users: the set of user_id values present
    food_logs,      \* table food_logs, committed: a set of rows
    daily_totals,   \* table daily_totals, committed: (user_id, date) -> row
    tx,             \* the write transaction in progress and its working copy
    turns,          \* number of turns started so far
    pc,             \* per session: the node (or await point) the turn is at
    config,         \* per session: config["configurable"]["user_id"]
    state,          \* per session: the AgentState of the running turn
    entry,          \* per session: entry_data of log_food_entry in flight
    exception,      \* per session: the exception the turn raised, if any
    ran,            \* per session: the nodes run so far in this turn
    lookup,         \* per session: what the lookup service answered
    estimate,       \* per session: what the estimation completion said
    found           \* per session: what usda_client.search_food returned

dbVars == <<users, food_logs, daily_totals, tx>>
turnVars ==
    <<pc, config, state, entry, exception, ran, lookup, estimate, found>>
vars == <<users, food_logs, daily_totals, tx, turns,
          pc, config, state, entry, exception, ran, lookup, estimate,
          found>>

(***************************************************************************)
(* Bounds of the model.                                                    *)
(***************************************************************************)
NumSessions == 2    \* turns that may run concurrently
MaxTurns == 3       \* turns started in one behaviour
MaxUserId == 1      \* user ids are 0..MaxUserId (0 is never registered)
MaxClock == 2       \* datetime.now() reads 0..MaxClock, two ticks a day

Sessions == 1..NumSessions

(***************************************************************************)
(* Python values.                                                          *)
(***************************************************************************)
PyNone == [py |-> "None"]
PyInt(n) == [py |-> "int", int |-> n]
PyStr(s) == [py |-> "str", str |-> s]
PyList(items) == [py |-> "list", items |-> items]
Dec(whole, tenth) == whole * 10 + tenth

\* Mutant: the test is for None only (x is None in place of not x).
IsNotNone(v) == v.py # "None"

\* Python truth value: None, 0, "" and empty containers are false.
Truthy(v) ==
    CASE v.py = "None" -> FALSE
      [] v.py = "int" -> v.int # 0
      [] v.py = "str" -> v.str # ""
      [] v.py = "list" -> v.items # <<>>
      [] OTHER -> TRUE

\* dict.get(key, default) on a mapping whose keys are its DOMAIN.
Get(d, key, default) == IF key \in DOMAIN d THEN d[key] ELSE default

\* str(value) inside an f-string.
Format(v) ==
    CASE v.py = "None" -> "None"
      [] v.py = "str" -> v.str
      [] OTHER -> "?"

\* Mutant: the new message carries the id of the last one, which the
\* reducer then replaces.
replace_last_message(left, right) ==
    IF left = <<>> THEN right ELSE SubSeq(left, 1, Len(left) - 1) \o right

\* Mutant: the channel has no reducer, so the update overwrites the list.
overwrite_messages(left, right) == right

\* langgraph.graph.message.add_messages: the new messages carry fresh ids,
\* so they are appended.
add_messages(left, right) == left \o right

\* Mutant: what the node returns replaces the state, so that a channel it
\* does not return is unset again (messages keep their reducer).
MergeReplaces(st, update) ==
    [k \in DOMAIN st |->
        IF k = "messages"
        THEN IF k \in DOMAIN update
             THEN add_messages(st[k], update[k])
             ELSE st[k]
        ELSE IF k \in DOMAIN update THEN update[k] ELSE PyNone]

\* The state update of a node: field-wise, messages through the reducer,
\* keys that are no channel of AgentState dropped.
Merge(st, update) ==
    [k \in DOMAIN st |->
        IF k \in DOMAIN update
        THEN IF k = "messages"
             THEN add_messages(st[k], update[k])
             ELSE update[k]
        ELSE st[k]]

HumanMessage(text) == [role |-> "human", content |-> [text |-> text]]
AIMessage(text) == [role |-> "ai", content |-> [text |-> text]]

\* AgentState before the graph input is applied: no channel has a value.
\* Of the channels no node writes error_context is kept; the others
\* (usda_search_results, current_log_entry, rag_context, retry_count,
\* user_id, session_id) are left out.
EmptyState ==
    [messages |-> <<>>,
     search_query |-> PyNone,
     intent |-> PyNone,
     selected_food |-> PyNone,
     nutrition_data |-> PyNone,
     historical_query |-> PyNone,
     current_daily_totals |-> PyNone,
     error_context |-> PyNone]

NoEntry == [py |-> "None"]
NotAsked == [py |-> "NotAsked"]
NoTx == [owner |-> 0, food_logs |-> {}, daily_totals |-> {}]

(***************************************************************************)
(* The collaborators' answers and the turn inputs the model draws from.    *)
(***************************************************************************)
Intents == {"log_food", "query_history", "get_totals", "chat"}

\* What structured_llm.ainvoke does: it returns a RouteQuery, or raises when
\* the completion is not JSON, when it fails validation against RouteQuery
\* (an intent outside the Literal), or when the call itself fails.
RouteQuery(intent, extracted_food) ==
    [kind |-> "RouteQuery", intent |-> intent,
     extracted_food |-> extracted_food]
ClassifierFailures ==
    {[kind |-> "OutputParserException"],    \* malformed completion
     [kind |-> "ValidationError"],          \* intent outside the enum
     [kind |-> "APIConnectionError"]}       \* the call failed

\* The lookup service's hits: {id, description, nutrients: name -> {value,
\* unit}}, per 100 g.
Nutrient(value, unit) == [value |-> PyInt(value), unit |-> PyStr(unit)]
EggHit ==
    [py |-> "dict",
     dict |-> [description |-> PyStr("Egg, whole, cooked"),
               fdc_id |-> PyInt(1),
               nutrients |->
                   ("Energy" :> Nutrient(Dec(155, 0), "KCAL"))
                   @@ ("Protein" :> Nutrient(Dec(13, 0), "G"))
                   @@ ("Total lipid (fat)" :> Nutrient(Dec(11, 0), "G"))
                   @@ ("Carbohydrate, by difference"
                          :> Nutrient(Dec(1, 1), "G"))]]
\* A hit that reports only some of the four nutrients.
BrothHit ==
    [py |-> "dict",
     dict |-> [description |-> PyStr("Broth"),
               fdc_id |-> PyInt(2),
               nutrients |-> ("Energy" :> Nutrient(Dec(5, 0), "KCAL"))]]

\* What usda_client.search_food returns: a ranked list, or something that
\* is no list when the result is absent.
LookupResponses ==
    {PyNone, PyList(<<>>), PyList(<<EggHit>>), PyList(<<BrothHit, EggHit>>)}

\* The text of a completion, as a sequence of tokens: the fence (three
\* backquotes), the label json that may follow it, prose, and JSON
\* documents.
Fence == "<fence>"
JsonDocuments ==
    ("{full}" :>
        [py |-> "dict",
         dict |-> [food_description |-> PyStr("Dragonfruit smoothie"),
                   quantity |-> PyInt(Dec(1, 0)),
                   unit |-> PyStr("cup"),
                   calories |-> PyInt(Dec(180, 0)),
                   protein_g |-> PyInt(Dec(3, 0)),
                   fat_g |-> PyInt(Dec(1, 0)),
                   carbs_g |-> PyInt(Dec(40, 0))]])
    @@ ("{calories}" :>
        [py |-> "dict", dict |-> [calories |-> PyInt(Dec(180, 0))]])
    @@ ("{null}" :>
        [py |-> "dict",
         dict |-> [food_description |-> PyStr("Dragonfruit smoothie"),
                   quantity |-> PyInt(Dec(1, 0)),
                   unit |-> PyStr("cup"),
                   calories |-> PyNone,
                   protein_g |-> PyInt(Dec(3, 0)),
                   fat_g |-> PyInt(Dec(1, 0)),
                   carbs_g |-> PyInt(Dec(40, 0))]])
    @@ ("[list]" :> PyList(<<PyInt(Dec(180, 0))>>))

EstimationTexts ==
    {<<"{full}">>,
     <<"Here it is:", Fence, "json", "{full}", Fence, "Enjoy!">>,
     <<Fence, "{calories}", Fence>>,
     <<"I cannot estimate that.">>,
     <<"[list]">>,
     <<"{null}">>}

\* The inputs and outcomes of a specification: the user ids and histories
\* turns are run with and what the collaborators answer.
AllInputs ==
    [user_ids |-> {PyNone} \cup {PyInt(n) : n \in 0..MaxUserId},
     histories |-> {<<>>, <<HumanMessage("I ate 2 large eggs")>>},
     classifier |->
        {RouteQuery("log_food", f) :
            f \in {PyNone, PyStr(""), PyStr("2 large eggs")}}
        \cup {RouteQuery(i, PyNone) : i \in Intents}
        \cup ClassifierFailures,
     lookup |-> LookupResponses,
     estimation |-> EstimationTexts,
     completion_fails |-> {TRUE, FALSE}]

\* The same, narrowed to what reaches the ledger, for the specification
\* with concurrent turns.
LedgerInputs ==
    [user_ids |-> {PyInt(n) : n \in 0..MaxUserId},
     histories |-> {<<HumanMessage("I ate 2 large eggs")>>},
     classifier |->
        {RouteQuery("log_food", PyStr("2 large eggs")),
         RouteQuery("chat", PyNone)},
     lookup |-> {PyList(<<>>), PyList(<<EggHit>>)},
     estimation |-> {<<"I cannot estimate that.">>},
     completion_fails |-> {FALSE}]

Init ==
    /\ users = {}
    /\ food_logs = {}
    /\ daily_totals = {}
    /\ tx = NoTx
    /\ turns = 0
    /\ pc = [s \in Sessions |-> "idle"]
    /\ config = [s \in Sessions |-> PyNone]
    /\ state = [s \in Sessions |-> EmptyState]
    /\ entry = [s \in Sessions |-> NoEntry]
    /\ exception = [s \in Sessions |-> "none"]
    /\ ran = [s \in Sessions |-> <<>>]
    /\ lookup = [s \in Sessions |-> "none"]
    /\ estimate = [s \in Sessions |-> <<>>]
    /\ found = [s \in Sessions |-> NotAsked]

(***************************************************************************)
(* The graph engine.                                                       *)
(***************************************************************************)
\* Mutant: the turns share one state object, so the update of a node
\* reaches the state of every turn.
GotoShared(s, node, update, next) ==
    /\ state' = [other \in Sessions |-> Merge(state[other], update)]
    /\ pc' = [pc EXCEPT ![s] = next]
    /\ ran' = [ran EXCEPT ![s] = Append(ran[s], node)]
    /\ exception' = exception

\* A node returned an update: merge it and move to the next node.
Goto(s, node, update, next) ==
    /\ state' = [state EXCEPT ![s] = Merge(state[s], update)]
    /\ pc' = [pc EXCEPT ![s] = next]
    /\ ran' = [ran EXCEPT ![s] = Append(ran[s], node)]
    /\ exception' = exception

\* A node raised: nothing catches it, and ainvoke raises to its caller.
Raise(s, node, exc) ==
    /\ pc' = [pc EXCEPT ![s] = "raised"]
    /\ exception' = [exception EXCEPT ![s] = exc]
    /\ ran' = [ran EXCEPT ![s] = Append(ran[s], node)]
    /\ state' = state

\* agent_graph.ainvoke(input, config) is called.
StartTurn(s, I) ==
    /\ pc[s] \in {"idle", "END", "raised"}
    /\ turns < MaxTurns
    /\ turns' = turns + 1
    /\ \E uid \in I.user_ids, history \in I.histories :
        /\ config' = [config EXCEPT ![s] = uid]
        /\ state' = [state EXCEPT
                        ![s] = Merge(EmptyState, [messages |-> history])]
    /\ pc' = [pc EXCEPT ![s] = "analyze_request"]
    /\ entry' = [entry EXCEPT ![s] = NoEntry]
    /\ exception' = [exception EXCEPT ![s] = "none"]
    /\ ran' = [ran EXCEPT ![s] = <<>>]
    /\ lookup' = [lookup EXCEPT ![s] = "none"]
    /\ estimate' = [estimate EXCEPT ![s] = <<>>]
    /\ found' = [found EXCEPT ![s] = NotAsked]
    /\ UNCHANGED dbVars

\* Mutant: the intent is ignored and every turn takes the logging path.
route_always_search(st) == "search_usda"

\* Mutant: every intent but chat is sent to the lookup.
route_unless_chat(st) ==
    IF st.intent = PyStr("chat") THEN "format_response" ELSE "search_usda"

route_after_analysis(st) ==
    IF st.intent = PyStr("log_food") THEN "search_usda" ELSE "format_response"

\* Mutant: the two branches are swapped.
route_swapped(st) ==
    IF st.selected_food = PyNone
    THEN "calculate_nutrition"
    ELSE "estimate_nutrition"

route_after_usda_search(st) ==
    IF st.selected_food = PyNone
    THEN "estimate_nutrition"
    ELSE "calculate_nutrition"

(***************************************************************************)
(* Node 1: analyze_request.                                                *)
(***************************************************************************)
analyze_request(s, I) ==
    /\ pc[s] = "analyze_request"
    /\ LET messages == state[s].messages
           after(update) == route_after_analysis(Merge(state[s], update))
       IN IF messages = <<>>
          THEN LET update == [intent |-> PyStr("chat"),
                              search_query |-> PyNone,
                              historical_query |-> PyNone]
               IN Goto(s, "analyze_request", update, after(update))
          ELSE \E response \in I.classifier :
                 IF response.kind = "RouteQuery"
                 THEN LET update ==
                            [intent |-> PyStr(response.intent),
                             search_query |-> response.extracted_food,
                             historical_query |->
                                PyStr(messages[Len(messages)].content.text)]
                      IN Goto(s, "analyze_request", update, after(update))
                 ELSE Raise(s, "analyze_request", response.kind)
    /\ UNCHANGED <<dbVars, turns, config, entry, lookup, estimate, found>>

(***************************************************************************)
(* Node 2: search_usda.                                                    *)
(***************************************************************************)
\* tools.search_usda_foods: the client's result if it is a list, else [].
search_usda_foods(response) ==
    IF response.py = "list" THEN response.items ELSE <<>>

search_usda(s, I) ==
    /\ pc[s] = "search_usda"
    /\ LET query == state[s].search_query
           after(update) == route_after_usda_search(Merge(state[s], update))
       IN IF ~Truthy(query)
          THEN LET update == [error |-> "No query"]
               IN /\ Goto(s, "search_usda", update, after(update))
                  /\ lookup' = lookup
                  /\ found' = found
          ELSE \E response \in I.lookup :
                 LET results == search_usda_foods(response)
                     update == IF results = <<>>
                               THEN [selected_food |-> PyNone]
                               ELSE [selected_food |-> results[1]]
                 IN /\ Goto(s, "search_usda", update, after(update))
                    /\ lookup' = [lookup EXCEPT
                                     ![s] = IF results = <<>>
                                            THEN "miss" ELSE "hit"]
                    /\ found' = [found EXCEPT ![s] = response]
    /\ UNCHANGED <<dbVars, turns, config, entry, estimate>>

(***************************************************************************)
(* Node 3: estimate_nutrition.                                             *)
(***************************************************************************)
\* The first index at which sep occurs in text, or 0.
Find(text, sep) ==
    LET at == {i \in 1..(Len(text) - Len(sep) + 1) :
                  SubSeq(text, i, i + Len(sep) - 1) = sep}
    IN IF at = {} THEN 0 ELSE CHOOSE i \in at : \A j \in at : i <= j

\* sep in text
Contains(text, sep) == Find(text, sep) # 0

\* text.split(sep)[0]
SplitFirst(text, sep) ==
    IF Contains(text, sep)
    THEN SubSeq(text, 1, Find(text, sep) - 1)
    ELSE text

\* text.split(sep)[1], for a text that contains sep
SplitSecond(text, sep) ==
    SplitFirst(SubSeq(text, Find(text, sep) + Len(sep), Len(text)), sep)

\* The markdown cleaning of estimate_nutrition.
StripFence(content_str) ==
    IF Contains(content_str, <<Fence, "json">>)
    THEN SplitFirst(SplitSecond(content_str, <<Fence, "json">>), <<Fence>>)
    ELSE IF Contains(content_str, <<Fence>>)
         THEN SplitFirst(SplitSecond(content_str, <<Fence>>), <<Fence>>)
         ELSE content_str

\* json.loads: the document, when the text is exactly one JSON document.
JsonDecodes(text) == Len(text) = 1 /\ text[1] \in DOMAIN JsonDocuments
JsonLoads(text) == JsonDocuments[text[1]]

\* Mutant: the fallback is tagged as a lookup result.
PlaceholderAsLookup(query) ==
    [py |-> "dict",
     dict |-> [food_description |-> PyStr("Estimated " \o Format(query)),
               quantity |-> PyInt(Dec(1, 0)),
               unit |-> PyStr("serving"),
               calories |-> PyInt(Dec(100, 0)),
               protein_g |-> PyInt(Dec(5, 0)),
               fat_g |-> PyInt(Dec(2, 0)),
               carbs_g |-> PyInt(Dec(10, 0)),
               source |-> PyStr("usda")]]

Placeholder(query) ==
    [py |-> "dict",
     dict |-> [food_description |-> PyStr("Estimated " \o Format(query)),
               quantity |-> PyInt(Dec(1, 0)),
               unit |-> PyStr("serving"),
               calories |-> PyInt(Dec(100, 0)),
               protein_g |-> PyInt(Dec(5, 0)),
               fat_g |-> PyInt(Dec(2, 0)),
               carbs_g |-> PyInt(Dec(10, 0)),
               source |-> PyStr("llm_estimation")]]

\* Mutant: a document that lacks a key is replaced by the placeholder as
\* a whole.
EstimateAllOrNothing(data, query) ==
    IF {"food_description", "quantity", "unit", "calories", "protein_g",
        "fat_g", "carbs_g"} \subseteq DOMAIN data
    THEN [py |-> "dict",
          dict |-> [k \in DOMAIN data \cup {"source"} |->
                       IF k = "source"
                       THEN PyStr("llm_estimation")
                       ELSE data[k]]]
    ELSE Placeholder(query)

\* final_data of the try block, for a parsed document that is a dict.
EstimateFrom(data, query) ==
    LET default == Placeholder(query).dict
    IN [py |-> "dict",
        dict |-> [food_description |->
                      Get(data, "food_description", default.food_description),
                  quantity |-> Get(data, "quantity", default.quantity),
                  unit |-> Get(data, "unit", default.unit),
                  calories |-> Get(data, "calories", default.calories),
                  protein_g |-> Get(data, "protein_g", default.protein_g),
                  fat_g |-> Get(data, "fat_g", default.fat_g),
                  carbs_g |-> Get(data, "carbs_g", default.carbs_g),
                  source |-> PyStr("llm_estimation")]]

estimate_nutrition(s, I) ==
    /\ pc[s] = "estimate_nutrition"
    /\ LET query == state[s].search_query
       IN \/ /\ TRUE \in I.completion_fails
             /\ Raise(s, "estimate_nutrition", "APIConnectionError")
             /\ estimate' = estimate
          \/ \E content \in I.estimation :
               LET content_str == StripFence(content)
               IN /\ estimate' = [estimate EXCEPT ![s] = content]
                  /\ IF ~JsonDecodes(content_str)
                     THEN \* except json.JSONDecodeError
                          Goto(s, "estimate_nutrition",
                               [nutrition_data |-> Placeholder(query)],
                               "update_database")
                     ELSE LET data == JsonLoads(content_str)
                          IN IF data.py # "dict"
                             THEN \* data.get on a list
                                  Raise(s, "estimate_nutrition",
                                        "AttributeError")
                             ELSE Goto(s, "estimate_nutrition",
                                       [nutrition_data |->
                                           EstimateFrom(data.dict, query)],
                                       "update_database")
    /\ UNCHANGED <<dbVars, turns, config, entry, lookup, found>>

(***************************************************************************)
(* Node 4: calculate_nutrition.                                            *)
(***************************************************************************)
EmptyDict == [k \in {} |-> PyNone]

\* Mutant: the carbohydrate is looked up under a name the service does not
\* use.
StandardizeShortName(usda_item) ==
    LET nutrients == Get(usda_item, "nutrients", [k \in {} |-> PyNone])
        value(name) ==
            Get(Get(nutrients, name, [k \in {} |-> PyNone]), "value",
                PyInt(0))
    IN [py |-> "dict",
        dict |-> [food_description |-> Get(usda_item, "description", PyNone),
                  fdc_id |-> Get(usda_item, "fdc_id", PyNone),
                  calories |-> value("Energy"),
                  protein_g |-> value("Protein"),
                  fat_g |-> value("Total lipid (fat)"),
                  carbs_g |-> value("Carbohydrate"),
                  quantity |-> PyInt(Dec(100, 0)),
                  unit |-> PyStr("g"),
                  source |-> PyStr("usda")]]

\* final_data of calculate_nutrition for a lookup hit.
Standardize(usda_item) ==
    LET nutrients == Get(usda_item, "nutrients", EmptyDict)
        value(name) == Get(Get(nutrients, name, EmptyDict), "value", PyInt(0))
    IN [py |-> "dict",
        dict |-> [food_description |-> Get(usda_item, "description", PyNone),
                  fdc_id |-> Get(usda_item, "fdc_id", PyNone),
                  calories |-> value("Energy"),
                  protein_g |-> value("Protein"),
                  fat_g |-> value("Total lipid (fat)"),
                  carbs_g |-> value("Carbohydrate, by difference"),
                  quantity |-> PyInt(Dec(100, 0)),
                  unit |-> PyStr("g"),
                  source |-> PyStr("usda")]]

calculate_nutrition(s) ==
    /\ pc[s] = "calculate_nutrition"
    /\ LET usda_item == state[s].selected_food
       IN IF Truthy(state[s].nutrition_data) \/ ~Truthy(usda_item)
          THEN Goto(s, "calculate_nutrition", EmptyDict, "update_database")
          ELSE Goto(s, "calculate_nutrition",
                    [nutrition_data |-> Standardize(usda_item.dict)],
                    "update_database")
    /\ UNCHANGED <<dbVars, turns, config, entry, lookup, estimate, found>>

(***************************************************************************)
(* The ledger: NutritionRepository.insert_food_log and the store.          *)
(*                                                                         *)
(* The store is an ACID single-node store: a transaction works on a copy   *)
(* of the tables that commit publishes and rollback discards, one writer   *)
(* holds the write lock at a time, and readers see the committed tables.   *)
(* Foreign keys are enforced, as insert_food_log expects.                  *)
(***************************************************************************)
\* ts.strftime("%Y-%m-%d"): the UTC day the timestamp falls in.  The clock
\* ticks twice a day.
date_str(ts) == ts \div 2

\* str(uuid4()): an id that no row and no entry in flight carries.
UsedLogIds ==
    {r.log_id : r \in food_logs \cup tx.food_logs}
    \cup {entry[s].log_id : s \in {x \in Sessions : entry[x] # NoEntry}}

\* Mutant: the id is generated once and used for every entry.
uuid4_once == CHOOSE i \in {1} : TRUE

uuid4 == CHOOSE i \in 1..(Cardinality(UsedLogIds) + 1) : i \notin UsedLogIds

\* log_values of insert_food_log (raw_data and created_at left out).
log_values(entry_data, user_id) ==
    [log_id |-> entry_data.log_id,
     user_id |-> user_id,
     timestamp |-> entry_data.timestamp,
     date |-> date_str(entry_data.timestamp),
     food_description |-> entry_data.food_description,
     fdc_id |-> entry_data.fdc_id,
     quantity |-> entry_data.quantity,
     unit |-> entry_data.unit,
     calories |-> entry_data.calories,
     protein_g |-> entry_data.protein_g,
     fat_g |-> entry_data.fat_g,
     carbs_g |-> entry_data.carbs_g,
     source |-> entry_data.source]

\* The values of upsert_stmt (last_updated left out).
totals_values(entry_data, user_id) ==
    [user_id |-> user_id,
     date |-> date_str(entry_data.timestamp),
     total_calories |-> entry_data.calories,
     total_protein_g |-> entry_data.protein_g,
     total_fat_g |-> entry_data.fat_g,
     total_carbs_g |-> entry_data.carbs_g,
     entries_count |-> 1]

\* Mutant: on conflict the row takes the new values instead of adding them
\* (SET total = excluded.total).
UpsertOverwrite(table, excluded) ==
    {r \in table : r.user_id # excluded.user_id \/ r.date # excluded.date}
    \cup {excluded}

\* Mutant: on conflict the sums are added but the count is left as it was.
UpsertNoCount(table, excluded) ==
    LET conflict == {r \in table : /\ r.user_id = excluded.user_id
                                   /\ r.date = excluded.date}
    IN IF conflict = {}
       THEN table \cup {excluded}
       ELSE (table \ conflict) \cup
            {[r EXCEPT
                !.total_calories = @ + excluded.total_calories,
                !.total_protein_g = @ + excluded.total_protein_g,
                !.total_fat_g = @ + excluded.total_fat_g,
                !.total_carbs_g = @ + excluded.total_carbs_g] :
             r \in conflict}

\* Mutant: the day's row is replaced by a row of the new entry alone
\* (INSERT OR REPLACE), and so is every other row of the user.
UpsertReplaceUser(table, excluded) ==
    {r \in table : r.user_id # excluded.user_id} \cup {excluded}

\* Mutant: on conflict nothing is done (ON CONFLICT DO NOTHING).
UpsertDoNothing(table, excluded) ==
    IF \E r \in table : r.user_id = excluded.user_id /\ r.date = excluded.date
    THEN table
    ELSE table \cup {excluded}

\* INSERT ... ON CONFLICT (user_id, date) DO UPDATE SET total = total +
\* excluded.total, entries_count = entries_count + 1.
Upsert(table, excluded) ==
    LET conflict == {r \in table : /\ r.user_id = excluded.user_id
                                   /\ r.date = excluded.date}
    IN IF conflict = {}
       THEN table \cup {excluded}
       ELSE (table \ conflict) \cup
            {[r EXCEPT
                !.total_calories = @ + excluded.total_calories,
                !.total_protein_g = @ + excluded.total_protein_g,
                !.total_fat_g = @ + excluded.total_fat_g,
                !.total_carbs_g = @ + excluded.total_carbs_g,
                !.entries_count = @ + 1] : r \in conflict}

\* Mutant: the statements were not run in a transaction, so what they wrote
\* stays.
NoRollback(committed, working) == working

\* What the tables hold after the transaction block is left by an
\* exception: the rollback restores the committed rows.
Rollback(committed, working) == committed

\* create_user_if_not_exists: INSERT OR IGNORE into users.
create_user_if_not_exists(user_id) ==
    /\ user_id \notin users
    /\ users' = users \cup {user_id}
    /\ UNCHANGED <<food_logs, daily_totals, tx, turns, turnVars>>

\* datetime.now(timezone.utc): what the wall clock may read, in ticks.
Now == 0..MaxClock

(***************************************************************************)
(* Node 5: update_database, with tools.log_food_entry.                     *)
(***************************************************************************)
\* The arguments pass the validation of the tool's input schema.
ValidToolInput(args) ==
    /\ args.food_description.py = "str"
    /\ \A k \in {"calories", "protein_g", "fat_g", "carbs_g", "quantity"} :
          args[k].py = "int"
    /\ args.unit.py = "str"
    /\ args.user_id.py = "int"
    /\ args.fdc_id.py \in {"None", "int"}
    /\ args.source \in {PyStr("usda"), PyStr("llm_estimation")}

\* Mutant: the source argument is not passed on, so the entry carries the
\* default of the parameter.
entry_data_default_source(args, log_id, timestamp) ==
    [py |-> "dict",
     log_id |-> log_id,
     timestamp |-> timestamp,
     user_id |-> args.user_id.int,
     food_description |-> args.food_description.str,
     fdc_id |-> args.fdc_id,
     quantity |-> args.quantity.int,
     unit |-> args.unit.str,
     calories |-> args.calories.int,
     protein_g |-> args.protein_g.int,
     fat_g |-> args.fat_g.int,
     carbs_g |-> args.carbs_g.int,
     source |-> "usda",
     committed |-> FALSE]

\* entry_data of log_food_entry, with the user_id it is written for.
entry_data(args, log_id, timestamp) ==
    [py |-> "dict",
     log_id |-> log_id,
     timestamp |-> timestamp,
     user_id |-> args.user_id.int,
     food_description |-> args.food_description.str,
     fdc_id |-> args.fdc_id,
     quantity |-> args.quantity.int,
     unit |-> args.unit.str,
     calories |-> args.calories.int,
     protein_g |-> args.protein_g.int,
     fat_g |-> args.fat_g.int,
     carbs_g |-> args.carbs_g.int,
     source |-> args.source.str,
     committed |-> FALSE]

\* update_database up to the first await of insert_food_log.
update_database(s) ==
    /\ pc[s] = "update_database"
    /\ LET user_id == config[s]
           data == state[s].nutrition_data
       IN IF ~Truthy(user_id)
          THEN /\ Goto(s, "update_database",
                       [messages |->
                           <<AIMessage("Error: No user ID found.")>>],
                       "format_response")
               /\ entry' = entry
          ELSE IF ~Truthy(data)
          THEN /\ Goto(s, "update_database",
                       [messages |->
                           <<AIMessage("Error: No nutrition data to save.")>>],
                       "format_response")
               /\ entry' = entry
          ELSE LET args == [food_description |-> data.dict.food_description,
                            calories |-> data.dict.calories,
                            protein_g |-> data.dict.protein_g,
                            fat_g |-> data.dict.fat_g,
                            carbs_g |-> data.dict.carbs_g,
                            quantity |-> data.dict.quantity,
                            unit |-> data.dict.unit,
                            user_id |-> user_id,
                            fdc_id |-> Get(data.dict, "fdc_id", PyNone),
                            source |-> data.dict.source]
               IN IF ~ValidToolInput(args)
                  THEN /\ Raise(s, "update_database", "ValidationError")
                       /\ entry' = entry
                  ELSE /\ \E timestamp \in Now :
                            entry' = [entry EXCEPT
                                ![s] = entry_data(args, uuid4, timestamp)]
                       /\ pc' = [pc EXCEPT ![s] = "insert_food_log"]
                       /\ UNCHANGED <<state, exception, ran>>
    /\ UNCHANGED <<dbVars, turns, config, lookup, estimate, found>>

\* insert_food_log returned False: log_food_entry returns its error and
\* update_database its message.
WriteFailed(s) ==
    Goto(s, "update_database",
         [messages |->
             <<AIMessage("I couldn't save that to the database.")>>],
         "format_response")

\* A. Insert Log, the first statement of the transaction.  It violates the
\* foreign key when the user does not exist.
insert_food_log(s) ==
    /\ pc[s] = "insert_food_log"
    /\ tx.owner = 0
    /\ IF entry[s].user_id \in users
       THEN /\ tx' = [owner |-> s,
                      food_logs |->
                          food_logs \cup
                              {log_values(entry[s], entry[s].user_id)},
                      daily_totals |-> daily_totals]
            /\ pc' = [pc EXCEPT ![s] = "upsert_daily_totals"]
            /\ UNCHANGED <<state, exception, ran>>
       ELSE /\ tx' = tx
            /\ WriteFailed(s)
    /\ UNCHANGED <<users, food_logs, daily_totals, turns, config,
                   entry, lookup, estimate, found>>

\* Another writer holds the write lock for too long: the statement fails
\* with "database is locked".
insert_food_log_locked(s) ==
    /\ pc[s] = "insert_food_log"
    /\ tx.owner \notin {0, s}
    /\ WriteFailed(s)
    /\ UNCHANGED <<dbVars, turns, config, entry, lookup, estimate, found>>

\* B. Upsert Daily Totals.
upsert_daily_totals(s) ==
    /\ pc[s] = "upsert_daily_totals"
    /\ tx.owner = s
    /\ tx' = [tx EXCEPT
                !.daily_totals =
                    Upsert(@, totals_values(entry[s], entry[s].user_id))]
    /\ pc' = [pc EXCEPT ![s] = "commit"]
    /\ UNCHANGED <<users, food_logs, daily_totals, turns, config,
                   state, entry, exception, ran, lookup, estimate, found>>

\* The transaction block is left normally: commit, return True.
commit(s) ==
    /\ pc[s] = "commit"
    /\ tx.owner = s
    /\ food_logs' = tx.food_logs
    /\ daily_totals' = tx.daily_totals
    /\ tx' = NoTx
    /\ entry' = [entry EXCEPT ![s].committed = TRUE]
    /\ pc' = [pc EXCEPT ![s] = "get_daily_summary"]
    /\ UNCHANGED <<users, turns, config, state, exception, ran,
                   lookup, estimate, found>>

\* A statement of the transaction (the upsert, the commit) raises: the
\* transaction is rolled back and insert_food_log returns False.
rollback(s) ==
    /\ pc[s] \in {"upsert_daily_totals", "commit"}
    /\ tx.owner = s
    /\ food_logs' = Rollback(food_logs, tx.food_logs)
    /\ daily_totals' = Rollback(daily_totals, tx.daily_totals)
    /\ tx' = NoTx
    /\ WriteFailed(s)
    /\ UNCHANGED <<users, turns, config, entry, lookup, estimate, found>>

\* Mutant: the day is taken from the clock at the time of the read, not
\* from the timestamp of the entry.
get_daily_summary_today(user_id, date) ==
    LET result == {r \in daily_totals : /\ r.user_id = user_id
                                        /\ r.date = date_str(MaxClock)}
    IN IF result = {}
       THEN PyNone
       ELSE [py |-> "dict", dict |-> CHOOSE r \in result : TRUE]

\* get_daily_summary: the committed totals row of the day, as a dict.
get_daily_summary(user_id, date) ==
    LET result == {r \in daily_totals : r.user_id = user_id /\ r.date = date}
    IN IF result = {}
       THEN PyNone
       ELSE [py |-> "dict", dict |-> CHOOSE r \in result : TRUE]

\* 3. Fetch updated stats; log_food_entry returns and update_database
\* stores daily_totals.
fetch_daily_totals(s) ==
    /\ pc[s] = "get_daily_summary"
    /\ LET new_totals == get_daily_summary(entry[s].user_id,
                                           date_str(entry[s].timestamp))
       IN Goto(s, "update_database", [current_daily_totals |-> new_totals],
               "format_response")
    /\ UNCHANGED <<dbVars, turns, config, entry, lookup, estimate, found>>

(***************************************************************************)
(* Node 6: format_response.                                                *)
(***************************************************************************)
\* obj.name succeeds: obj is an object with that attribute.  A dict has
\* keys, no such attributes.
HasAttr(obj, name) == obj.py = "object" /\ name \in DOMAIN obj.attrs

\* The message the completion service writes for a prompt.
Completion(prompt) == [role |-> "ai", content |-> [prompt |-> prompt]]

format_response(s, I) ==
    /\ pc[s] = "format_response"
    /\ LET intent == state[s].intent
           messages == state[s].messages
           Reply(prompt) ==
               \/ /\ TRUE \in I.completion_fails
                  /\ Raise(s, "format_response", "APIConnectionError")
               \/ Goto(s, "format_response",
                       [messages |-> <<Completion(prompt)>>], "END")
       IN IF intent = PyStr("log_food")
          THEN LET data == IF Truthy(state[s].nutrition_data)
                           THEN state[s].nutrition_data.dict
                           ELSE EmptyDict
                   totals == state[s].current_daily_totals
               IN IF Truthy(totals)
                     /\ ~(HasAttr(totals, "total_calories")
                          /\ HasAttr(totals, "total_protein_g"))
                  THEN Raise(s, "format_response", "AttributeError")
                  ELSE Reply([kind |-> "confirm",
                              food_desc |->
                                  Get(data, "food_description", PyStr("food")),
                              calories |-> Get(data, "calories", PyInt(0)),
                              total_cal |->
                                  IF Truthy(totals)
                                  THEN totals.attrs.total_calories
                                  ELSE 0,
                              total_protein |->
                                  IF Truthy(totals)
                                  THEN totals.attrs.total_protein_g
                                  ELSE 0])
          ELSE IF intent = PyStr("query_history")
          THEN Reply([kind |-> "summarize_history"])
          ELSE Reply([kind |-> "reply",
                      last_content |->
                          IF messages # <<>>
                          THEN messages[Len(messages)].content
                          ELSE [text |-> "Hello"]])
    /\ UNCHANGED <<dbVars, turns, config, entry, lookup, estimate, found>>

(***************************************************************************)
(* Specifications.                                                         *)
(***************************************************************************)
Turn(s, I) ==
    \/ StartTurn(s, I)
    \/ analyze_request(s, I)
    \/ search_usda(s, I)
    \/ estimate_nutrition(s, I)
    \/ calculate_nutrition(s)
    \/ update_database(s)
    \/ insert_food_log(s)
    \/ upsert_daily_totals(s)
    \/ commit(s)
    \/ rollback(s)
    \/ fetch_daily_totals(s)
    \/ format_response(s, I)

Environment ==
    \E user_id \in 1..MaxUserId : create_user_if_not_exists(user_id)

\* Concurrent turns, with the inputs that reach the ledger.
Next ==
    \/ \E s \in Sessions : Turn(s, LedgerInputs)
    \/ \E s \in Sessions : insert_food_log_locked(s)
    \/ Environment

Spec == Init /\ [][Next]_vars

\* One turn after the other in one session, with every input and outcome.
\* No other writer exists, so the write lock is always free.
NextTurn ==
    \/ Turn(1, AllInputs)
    \/ Environment

SpecTurn == Init /\ [][NextTurn]_vars

(***************************************************************************)
(* Vocabulary of the properties.                                           *)
(***************************************************************************)
Last(seq) == seq[Len(seq)]
Nodes(s) == {ran[s][i] : i \in 1..Len(ran[s])}
Times(s, node) == Cardinality({i \in 1..Len(ran[s]) : ran[s][i] = node})
JustRan(s, node) == ran[s] # <<>> /\ Last(ran[s]) = node /\ pc[s] # "raised"

\* The await points of update_database.
WriteStages == {"insert_food_log", "upsert_daily_totals", "commit"}
UpdateStages == {"update_database", "get_daily_summary"} \cup WriteStages

\* The session takes a step of its turn.
Steps(s) == pc'[s] # pc[s]

RECURSIVE Sum(_, _)
Sum(rows, column) ==
    IF rows = {}
    THEN 0
    ELSE LET r == CHOOSE x \in rows : TRUE
         IN r[column] + Sum(rows \ {r}, column)

LogsOf(user_id, date) ==
    {r \in food_logs : r.user_id = user_id /\ r.date = date}
TotalsOf(user_id, date) ==
    {t \in daily_totals : t.user_id = user_id /\ t.date = date}

\* The reply update_database leaves when the write failed.
SaveFailedMessage == AIMessage("I couldn't save that to the database.")

(***************************************************************************)
(* C1.  run returns a terminal context and never raises to its caller,     *)
(* whatever the input and whatever the collaborators answer, the           *)
(* successful log_food path included.                                      *)
(* Refuted: on a successful write format_response reads attributes of the  *)
(* dict that get_daily_summary returned.                                   *)
(***************************************************************************)
C1_RunNeverRaises == \A s \in Sessions : pc[s] # "raised"

(***************************************************************************)
(* C2.  In every reachable state of the ledger, each daily_totals row      *)
(* equals the sums of calories, protein, fat and carbs over the food_logs  *)
(* rows of its (user_id, date) and counts those rows, and a key has a      *)
(* totals row exactly when it has a log row.                               *)
(***************************************************************************)
C2_TotalsEqualLogSums ==
    /\ \A t \in daily_totals :
        LET rows == LogsOf(t.user_id, t.date)
        IN /\ rows # {}
           /\ t.total_calories = Sum(rows, "calories")
           /\ t.total_protein_g = Sum(rows, "protein_g")
           /\ t.total_fat_g = Sum(rows, "fat_g")
           /\ t.total_carbs_g = Sum(rows, "carbs_g")
           /\ t.entries_count = Cardinality(rows)
           /\ TotalsOf(t.user_id, t.date) = {t}
    /\ \A r \in food_logs : TotalsOf(r.user_id, r.date) # {}

\* Two logs of one day, of different foods, and a failed write after them.
C2_Witness ==
    \E t \in daily_totals :
        /\ t.entries_count = 2
        /\ \E r1, r2 \in LogsOf(t.user_id, t.date) :
              r1.calories # r2.calories
        /\ \E s \in Sessions :
              /\ Len(state[s].messages) > 1
              /\ SaveFailedMessage
                    \in {state[s].messages[i] :
                            i \in 1..Len(state[s].messages)}

(***************************************************************************)
(* C3.  A ledger write is all-or-nothing: no step of a write other than    *)
(* its commit changes the committed tables; a write that fails leaves      *)
(* them as they were, discards its working copy and reports the failure;   *)
(* and no log row is committed without a contribution to its day's totals  *)
(* or the reverse.                                                         *)
(***************************************************************************)
C3_WriteAllOrNothing ==
    /\ [](/\ \A r \in food_logs :
                \E t \in TotalsOf(r.user_id, r.date) : t.entries_count >= 1
          /\ \A t \in daily_totals :
                Cardinality(LogsOf(t.user_id, t.date)) = t.entries_count)
    /\ [][\A s \in Sessions :
            (pc[s] \in WriteStages /\ Steps(s)
                /\ pc'[s] # "get_daily_summary")
            => /\ food_logs' = food_logs
               /\ daily_totals' = daily_totals
               /\ pc'[s] = "format_response"
                    => /\ tx'.owner # s
                       /\ ~entry'[s].committed
                       /\ state'[s].current_daily_totals = PyNone
                       /\ Last(state'[s].messages) = SaveFailedMessage]_vars

\* A write for a user the users table does not hold has just failed.
C3_Witness ==
    \E s \in Sessions :
        /\ pc[s] = "format_response"
        /\ entry[s] # NoEntry
        /\ entry[s].user_id \notin users
        /\ Last(state[s].messages) = SaveFailedMessage

(***************************************************************************)
(* C4.  No increment is lost under concurrent writers: whenever the turns  *)
(* in progress have committed writes to one (user_id, date), the totals    *)
(* row of that key counts at least that many entries and holds at least    *)
(* their sums, and exactly their sums and their number when theirs are     *)
(* the only log rows of the key.                                           *)
(***************************************************************************)
Writers(user_id, date) ==
    {s \in Sessions : /\ entry[s] # NoEntry
                      /\ entry[s].committed
                      /\ entry[s].user_id = user_id
                      /\ date_str(entry[s].timestamp) = date}

RECURSIVE SumOfEntries(_, _)
SumOfEntries(writers, column) ==
    IF writers = {}
    THEN 0
    ELSE LET s == CHOOSE x \in writers : TRUE
         IN entry[s][column] + SumOfEntries(writers \ {s}, column)

C4_NoLostUpdate ==
    \A w \in Sessions :
        (entry[w] # NoEntry /\ entry[w].committed)
        => LET user_id == entry[w].user_id
               date == date_str(entry[w].timestamp)
               writers == Writers(user_id, date)
               only == Cardinality(LogsOf(user_id, date))
                           = Cardinality(writers)
               Holds(total, column) ==
                   IF only
                   THEN total = SumOfEntries(writers, column)
                   ELSE total >= SumOfEntries(writers, column)
           IN \E t \in daily_totals :
                /\ t.user_id = user_id
                /\ t.date = date
                /\ IF only
                   THEN t.entries_count = Cardinality(writers)
                   ELSE t.entries_count >= Cardinality(writers)
                /\ Holds(t.total_calories, "calories")
                /\ Holds(t.total_protein_g, "protein_g")
                /\ Holds(t.total_fat_g, "fat_g")
                /\ Holds(t.total_carbs_g, "carbs_g")

\* Two turns are inside log_food_entry at once, each has committed 100
\* kcal for the same user and day, and the total is 200.
C4_Witness ==
    /\ \A s \in {1, 2} :
          /\ pc[s] = "get_daily_summary"
          /\ entry[s].calories = Dec(100, 0)
          /\ entry[s].user_id = entry[1].user_id
          /\ date_str(entry[s].timestamp) = date_str(entry[1].timestamp)
    /\ \E t \in daily_totals :
          /\ t.user_id = entry[1].user_id
          /\ t.date = date_str(entry[1].timestamp)
          /\ t.total_calories = Dec(200, 0)
          /\ t.entries_count = 2

(***************************************************************************)
(* C5.  After analyze_request the next node is search_usda if and only if  *)
(* intent is log_food, and format_response otherwise; in a turn whose      *)
(* intent is not log_food neither search_usda, a resolution node nor       *)
(* update_database runs.                                                   *)
(***************************************************************************)
LogPathNodes ==
    {"search_usda", "calculate_nutrition", "estimate_nutrition",
     "update_database"}

C5_RouteAfterAnalysis ==
    \A s \in Sessions :
        /\ JustRan(s, "analyze_request")
            => pc[s] = IF state[s].intent = PyStr("log_food")
                       THEN "search_usda"
                       ELSE "format_response"
        /\ state[s].intent # PyStr("log_food")
            => /\ Nodes(s) \cap LogPathNodes = {}
               /\ pc[s] \notin LogPathNodes \cup UpdateStages

\* A get_totals turn has reached the end through format_response alone.
C5_Witness ==
    \E s \in Sessions :
        /\ pc[s] = "END"
        /\ state[s].intent = PyStr("get_totals")
        /\ ran[s] = <<"analyze_request", "format_response">>

(***************************************************************************)
(* C6.  After search_usda the next node is calculate_nutrition if and only *)
(* if the lookup returned a hit, and estimate_nutrition otherwise;         *)
(* estimate_nutrition is entered only without a hit, and no turn runs both *)
(* calculate_nutrition and estimate_nutrition.                             *)
(***************************************************************************)
C6_RouteAfterSearch ==
    \A s \in Sessions :
        /\ JustRan(s, "search_usda")
            => pc[s] = IF lookup[s] = "hit"
                       THEN "calculate_nutrition"
                       ELSE "estimate_nutrition"
        /\ (pc[s] = "estimate_nutrition" \/ "estimate_nutrition" \in Nodes(s))
            => lookup[s] # "hit"
        /\ (pc[s] = "calculate_nutrition"
                \/ "calculate_nutrition" \in Nodes(s))
            => lookup[s] = "hit"
        /\ ~({"calculate_nutrition", "estimate_nutrition"} \subseteq Nodes(s))

\* The lookup returned hits and the first one is about to be standardized.
C6_Witness ==
    \E s \in Sessions :
        /\ pc[s] = "calculate_nutrition"
        /\ lookup[s] = "hit"
        /\ state[s].selected_food = BrothHit

(***************************************************************************)
(* C7.  Every turn terminates: each node runs at most once, and a turn     *)
(* whose external calls all return runs format_response exactly once and   *)
(* stops at END.                                                           *)
(* Refuted through C1: a turn stops short of END with an exception.        *)
(***************************************************************************)
C7_EveryTurnReachesEnd ==
    \A s \in Sessions :
        /\ \A node \in Nodes(s) : Times(s, node) = 1
        /\ pc[s] = "END"
            => /\ Last(ran[s]) = "format_response"
               /\ Times(s, "format_response") = 1
        /\ pc[s] = "raised" => exception[s] = "APIConnectionError"

(***************************************************************************)
(* C8.  A turn whose intent is not log_food writes nothing to the ledger:  *)
(* none of its steps changes a ledger table or the write transaction, and  *)
(* current_daily_totals is unset in it to the end.                         *)
(***************************************************************************)
C8_NoWriteWithoutLogIntent ==
    /\ [](\A s \in Sessions :
            state[s].intent \notin {PyNone, PyStr("log_food")}
            => /\ state[s].current_daily_totals = PyNone
               /\ entry[s] = NoEntry)
    /\ [][\A s \in Sessions :
            (Steps(s) /\ state'[s].intent # PyStr("log_food"))
            => UNCHANGED <<users, food_logs, daily_totals, tx>>]_vars

\* A chat turn has ended beside a ledger that other turns have written.
C8_Witness ==
    \E s \in Sessions :
        /\ pc[s] = "END"
        /\ state[s].intent = PyStr("chat")
        /\ state[s].current_daily_totals = PyNone
        /\ food_logs # {}
        /\ \E other \in Sessions \ {s} : pc[other] \in WriteStages

(***************************************************************************)
(* C9.  When the classification is malformed or outside the intent enum,   *)
(* analyze_request yields intent chat (with an error note) and the turn    *)
(* goes on; after analyze_request has run the intent is never unset.       *)
(* Refuted: analyze_request lets the exception of the completion call      *)
(* propagate and sets nothing.                                             *)
(***************************************************************************)
C9_MalformedClassificationIsChat ==
    \A s \in Sessions :
        "analyze_request" \in Nodes(s)
        => /\ state[s].intent \in {PyStr(i) : i \in Intents}
           /\ exception[s] \in {"OutputParserException", "ValidationError"}
                /\ Last(ran[s]) = "analyze_request"
                => /\ state[s].intent = PyStr("chat")
                   /\ pc[s] = "format_response"

ParsesAsObject(content) ==
    /\ JsonDecodes(StripFence(content))
    /\ JsonLoads(StripFence(content)).py = "dict"

\* The keys the estimation prompt asks for.
FixedKeys ==
    {"food_description", "quantity", "unit", "calories", "protein_g",
     "fat_g", "carbs_g"}

(***************************************************************************)
(* C11.  When the estimation completion cannot be parsed as a JSON object, *)
(* fenced or not, estimate_nutrition yields the fixed placeholder          *)
(* (quantity 1, unit serving, calories 100, protein 5, fat 2, carbs 10,    *)
(* description "Estimated " + query, source llm_estimation) and the turn   *)
(* goes on to update_database.                                             *)
(* Refuted: a completion that is JSON but no object (an array) makes       *)
(* data.get raise AttributeError, which the except clause does not name.   *)
(***************************************************************************)
C11_UnparseableEstimateIsPlaceholder ==
    \A s \in Sessions :
        (estimate[s] # <<>> /\ ~ParsesAsObject(estimate[s]))
        => /\ state[s].nutrition_data = Placeholder(state[s].search_query)
           /\ state[s].nutrition_data.dict.calories = PyInt(Dec(100, 0))
           /\ state[s].nutrition_data.dict.unit = PyStr("serving")
           /\ ~(pc[s] = "raised" /\ Last(ran[s]) = "estimate_nutrition")

(***************************************************************************)
(* C12.  As claimed: when the estimation completion parses but lacks some  *)
(* of the fixed keys, nutrition_data is the fixed placeholder and no mix   *)
(* of returned and default values.                                         *)
(***************************************************************************)
C12_MissingKeysGivePlaceholder ==
    \A s \in Sessions :
        (/\ estimate[s] # <<>>
         /\ ParsesAsObject(estimate[s])
         /\ ~(FixedKeys \subseteq
                DOMAIN JsonLoads(StripFence(estimate[s])).dict))
        => state[s].nutrition_data = Placeholder(state[s].search_query)

(***************************************************************************)
(* C12, amended.  When the estimation completion parses but lacks some of  *)
(* the fixed keys, each missing key takes its placeholder value, each key  *)
(* returned keeps the returned value, the source is llm_estimation, and    *)
(* the turn goes on to update_database.                                    *)
(***************************************************************************)
C12_MissingKeysTakeDefaults ==
    \A s \in Sessions :
        (/\ estimate[s] # <<>>
         /\ ParsesAsObject(estimate[s])
         /\ ~(FixedKeys \subseteq
                DOMAIN JsonLoads(StripFence(estimate[s])).dict))
        => LET data == JsonLoads(StripFence(estimate[s])).dict
               record == state[s].nutrition_data
               fixed == Placeholder(state[s].search_query).dict
           IN /\ record # PyNone
              /\ DOMAIN record.dict = FixedKeys \cup {"source"}
              /\ \A k \in FixedKeys :
                    record.dict[k] = IF k \in DOMAIN data
                                     THEN data[k]
                                     ELSE fixed[k]
              /\ record.dict.source = PyStr("llm_estimation")
              /\ ~(pc[s] = "raised" /\ Last(ran[s]) = "estimate_nutrition")

\* A fenced object with calories only was completed with the defaults.
C12_Witness ==
    \E s \in Sessions :
        /\ pc[s] = "update_database"
        /\ estimate[s] = <<Fence, "{calories}", Fence>>
        /\ state[s].nutrition_data.dict.calories = PyInt(Dec(180, 0))
        /\ state[s].nutrition_data.dict.protein_g = PyInt(Dec(5, 0))
        /\ state[s].nutrition_data.dict.unit = PyStr("serving")

\* The message is in the conversation history of the session's turn.
Said(s, message) ==
    \E i \in 1..Len(state[s].messages) : state[s].messages[i] = message

\* The replies update_database leaves when it does not write.
NoUserMessage == AIMessage("Error: No user ID found.")
NoDataMessage == AIMessage("Error: No nutrition data to save.")
FailureMessages == {SaveFailedMessage, NoUserMessage, NoDataMessage}

(***************************************************************************)
(* C13.  When the ledger write fails in update_database the failure is     *)
(* recorded in error_context, current_daily_totals stays unset, and the    *)
(* turn proceeds to format_response and to END.                            *)
(* Refuted: no node assigns error_context; the failure leaves a message    *)
(* only.                                                                   *)
(***************************************************************************)
C13_WriteFailureIsNoted ==
    \A s \in Sessions :
        Said(s, SaveFailedMessage)
        => /\ state[s].error_context # PyNone
           /\ state[s].current_daily_totals = PyNone
           /\ pc[s] \in {"format_response", "END"}

(***************************************************************************)
(* C14.  In a turn in which a step failed (the write failed, the user id   *)
(* or the nutrition record was missing) the reply the caller reads, the    *)
(* last message at END, is the explanation of that failure and no          *)
(* confirmation that the food was logged.                                  *)
(* Refuted: format_response runs after update_database on every path and   *)
(* appends the completion of its confirmation prompt after the failure     *)
(* message.                                                                *)
(***************************************************************************)
C14_FailureReplyIsLast ==
    \A s \in Sessions :
        (pc[s] = "END" /\ \E m \in FailureMessages : Said(s, m))
        => Last(state[s].messages) \in FailureMessages

\* The config values update_database takes for a missing user id: none, and
\* the id 0.
NoUserIds == {PyNone, PyInt(0)}

(***************************************************************************)
(* C15.  As claimed: when a turn is run with no user id, the turn leaves   *)
(* both ledger tables unchanged, current_daily_totals stays unset, and the *)
(* missing user id is surfaced in the context the turn ends with.          *)
(***************************************************************************)
C15_MissingUserIsSurfaced ==
    \A s \in Sessions :
        (pc[s] = "END" /\ config[s] = PyNone)
        => /\ Said(s, NoUserMessage)
           /\ state[s].current_daily_totals = PyNone
           /\ entry[s] = NoEntry

(***************************************************************************)
(* C15, amended.  When a turn is run with no user id (or with the id 0),   *)
(* no ledger write is attempted: no step of the turn changes a ledger      *)
(* table or opens a transaction, and current_daily_totals stays unset.     *)
(* The missing user id is surfaced only if the turn reaches                *)
(* update_database, as the message "Error: No user ID found." that stays   *)
(* in the history to the end of the turn; the turn then goes on to         *)
(* format_response.                                                        *)
(***************************************************************************)
C15_NoWriteWithoutUser ==
    /\ [](\A s \in Sessions :
            config[s] \in NoUserIds
            => /\ entry[s] = NoEntry
               /\ pc[s] \notin WriteStages \cup {"get_daily_summary"}
               /\ tx.owner # s
               /\ state[s].current_daily_totals = PyNone
               /\ "update_database" \in Nodes(s)
                    => /\ Said(s, NoUserMessage)
                       /\ pc[s] \in {"format_response", "END", "raised"}
                       /\ pc[s] = "raised"
                            => exception[s] = "APIConnectionError")
    /\ [][\A s \in Sessions :
            (Steps(s) /\ config'[s] \in NoUserIds)
            => UNCHANGED <<food_logs, daily_totals, tx>>]_vars

\* A log_food turn run without a user id has ended: the ledger holds what
\* an earlier turn wrote and the message is in the history, before the
\* reply.
C15_Witness ==
    \E s \in Sessions :
        /\ pc[s] = "END"
        /\ config[s] = PyNone
        /\ state[s].intent = PyStr("log_food")
        /\ Said(s, NoUserMessage)
        /\ Last(state[s].messages) # NoUserMessage
        /\ food_logs # {}

(***************************************************************************)
(* C16.  On the lookup path nutrition_data is built from the first ranked  *)
(* hit: calories, protein_g, fat_g and carbs_g are the values of its       *)
(* nutrients Energy, Protein, Total lipid (fat) and Carbohydrate, by       *)
(* difference, a missing nutrient counting 0; quantity is 100, unit is g   *)
(* and source is usda.  The hit with Energy 155, Protein 13, fat 11 and    *)
(* carbohydrate 1.1 gives calories 155, protein 13, fat 11, carbs 1.1.     *)
(***************************************************************************)
C16_LookupRecordIsFirstHit ==
    \A s \in Sessions :
        "calculate_nutrition" \in Nodes(s)
        => LET hit == state[s].selected_food
               record == state[s].nutrition_data
               nutrients == hit.dict.nutrients
               Of(name) == IF name \in DOMAIN nutrients
                           THEN nutrients[name].value
                           ELSE PyInt(0)
           IN /\ found[s].py = "list"
              /\ found[s].items # <<>>
              /\ hit = found[s].items[1]
              /\ hit \in {EggHit, BrothHit}
              /\ record # PyNone
              /\ record.dict.calories = Of("Energy")
              /\ record.dict.protein_g = Of("Protein")
              /\ record.dict.fat_g = Of("Total lipid (fat)")
              /\ record.dict.carbs_g = Of("Carbohydrate, by difference")
              /\ record.dict.quantity = PyInt(Dec(100, 0))
              /\ record.dict.unit = PyStr("g")
              /\ record.dict.source = PyStr("usda")
              /\ record.dict.food_description = hit.dict.description
              /\ hit = EggHit
                    => /\ record.dict.calories = PyInt(Dec(155, 0))
                       /\ record.dict.protein_g = PyInt(Dec(13, 0))
                       /\ record.dict.fat_g = PyInt(Dec(11, 0))
                       /\ record.dict.carbs_g = PyInt(Dec(1, 1))
              /\ hit = BrothHit
                    => /\ record.dict.calories = PyInt(Dec(5, 0))
                       /\ record.dict.protein_g = PyInt(0)
                       /\ record.dict.fat_g = PyInt(0)
                       /\ record.dict.carbs_g = PyInt(0)

\* The egg hit was standardized and its record is about to be written.
C16_Witness ==
    \E s \in Sessions :
        /\ pc[s] = "update_database"
        /\ Last(ran[s]) = "calculate_nutrition"
        /\ state[s].selected_food = EggHit
        /\ state[s].nutrition_data.dict.carbs_g = PyInt(Dec(1, 1))
        /\ state[s].nutrition_data.dict.quantity = PyInt(Dec(100, 0))

(***************************************************************************)
(* C17.  A successful write for the key (user_id, date) creates the        *)
(* daily_totals row with the entry's values and entries_count 1 when the   *)
(* key has no row, and otherwise adds the entry's calories, protein, fat   *)
(* and carbs to the sums of the row and 1 to entries_count; it inserts     *)
(* exactly one food_logs row and leaves the rows of every other key as     *)
(* they were.                                                              *)
(***************************************************************************)
C17_WriteCreatesOrAdds ==
    [][\A s \in Sessions :
        (pc[s] = "commit" /\ pc'[s] = "get_daily_summary")
        => LET e == entry[s]
               date == date_str(e.timestamp)
               before == TotalsOf(e.user_id, date)
               after == {t \in daily_totals' :
                            t.user_id = e.user_id /\ t.date = date}
               inserted == food_logs' \ food_logs
           IN /\ food_logs \subseteq food_logs'
              /\ Cardinality(inserted) = 1
              /\ \A r \in inserted :
                    /\ r.log_id = e.log_id
                    /\ r.user_id = e.user_id
                    /\ r.date = date
                    /\ r.calories = e.calories
                    /\ r.protein_g = e.protein_g
                    /\ r.fat_g = e.fat_g
                    /\ r.carbs_g = e.carbs_g
              /\ Cardinality(before) <= 1
              /\ Cardinality(after) = 1
              /\ \A t \in after :
                    IF before = {}
                    THEN /\ t.total_calories = e.calories
                         /\ t.total_protein_g = e.protein_g
                         /\ t.total_fat_g = e.fat_g
                         /\ t.total_carbs_g = e.carbs_g
                         /\ t.entries_count = 1
                    ELSE \A b \in before :
                         /\ t.total_calories = b.total_calories + e.calories
                         /\ t.total_protein_g
                                = b.total_protein_g + e.protein_g
                         /\ t.total_fat_g = b.total_fat_g + e.fat_g
                         /\ t.total_carbs_g = b.total_carbs_g + e.carbs_g
                         /\ t.entries_count = b.entries_count + 1
              /\ daily_totals' \ after = daily_totals \ before]_vars

\* A write has added to a row that already counted an entry, beside the
\* row of another day.
C17_Witness ==
    \E s \in Sessions :
        /\ pc[s] = "get_daily_summary"
        /\ entry[s].committed
        /\ \E t \in TotalsOf(entry[s].user_id, date_str(entry[s].timestamp)) :
              /\ t.entries_count = 2
              /\ t.total_calories > entry[s].calories
        /\ \E t \in daily_totals : t.date # date_str(entry[s].timestamp)

(***************************************************************************)
(* C18.  Once a step of a turn has failed the turn ends early and writes   *)
(* no food log afterwards; in particular a log_food turn in which no food  *)
(* text was extracted, so that search_usda has no query, writes nothing    *)
(* to the ledger.                                                          *)
(* Refuted: the "error" key search_usda returns is no channel of           *)
(* AgentState, selected_food stays unset, and the turn is routed to        *)
(* estimate_nutrition and on to the write.                                 *)
(***************************************************************************)
C18_NoWriteWithoutQuery ==
    \A s \in Sessions :
        (/\ "search_usda" \in Nodes(s)
         /\ state[s].search_query \in {PyNone, PyStr("")})
        => /\ entry[s] = NoEntry
           /\ pc[s] \notin WriteStages \cup {"get_daily_summary"}

\* The resolution nodes and the source each tags its record with.
SourceOf ==
    ("calculate_nutrition" :> "usda")
    @@ ("estimate_nutrition" :> "llm_estimation")

(***************************************************************************)
(* C19.  Whenever update_database runs, nutrition_data has been produced   *)
(* by exactly one of the two resolution nodes in that turn and its source  *)
(* names that node: usda after calculate_nutrition, llm_estimation after   *)
(* estimate_nutrition.  The food_logs row written carries the same source. *)
(***************************************************************************)
C19_SourceNamesPath ==
    \A s \in Sessions :
        (pc[s] \in UpdateStages \/ "update_database" \in Nodes(s))
        => LET resolved == Nodes(s) \cap DOMAIN SourceOf
               record == state[s].nutrition_data
           IN /\ Cardinality(resolved) = 1
              /\ record # PyNone
              /\ \A node \in resolved :
                    /\ record.dict.source = PyStr(SourceOf[node])
                    /\ entry[s] # NoEntry
                        => /\ entry[s].source = SourceOf[node]
                           /\ \A r \in food_logs \cup tx.food_logs :
                                 r.log_id = entry[s].log_id
                                 => r.source = SourceOf[node]

\* An estimated record has been committed as a row tagged llm_estimation.
C19_Witness ==
    \E s \in Sessions :
        /\ pc[s] = "get_daily_summary"
        /\ "estimate_nutrition" \in Nodes(s)
        /\ \E r \in food_logs :
              /\ r.log_id = entry[s].log_id
              /\ r.source = "llm_estimation"
        /\ \E r \in food_logs : r.source = "usda"

(***************************************************************************)
(* C20.  Within a turn intent is set once, by analyze_request, and no      *)
(* later node changes it: from the moment analyze_request has returned,    *)
(* intent is one of the four intents, and every later step of the turn     *)
(* (search_usda, calculate_nutrition, estimate_nutrition, update_database, *)
(* format_response) leaves it as it is, so that the turn ends with the     *)
(* intent analyze_request produced.                                        *)
(***************************************************************************)
C20_IntentSetOnce ==
    /\ [](\A s \in Sessions :
            /\ pc[s] = "analyze_request" => state[s].intent = PyNone
            /\ ("analyze_request" \in Nodes(s)
                    /\ ~(pc[s] = "raised" /\ ran[s] = <<"analyze_request">>))
                => state[s].intent \in {PyStr(i) : i \in Intents})
    /\ [][\A s \in Sessions :
            (Steps(s) /\ pc[s] \notin {"idle", "END", "raised",
                                       "analyze_request"})
            => state'[s].intent = state[s].intent]_vars

\* A log_food turn has gone through every node of the estimation path and
\* ended with the intent it was given.
C20_Witness ==
    \E s \in Sessions :
        /\ pc[s] = "END"
        /\ state[s].intent = PyStr("log_food")
        /\ ran[s] = <<"analyze_request", "search_usda", "estimate_nutrition",
                      "update_database", "format_response">>

\* The channels of AgentState other than the conversation history.
OtherChannels == DOMAIN EmptyState \ {"messages"}

\* left is a prefix of right.
IsPrefix(left, right) ==
    /\ Len(left) <= Len(right)
    /\ SubSeq(right, 1, Len(left)) = left

(***************************************************************************)
(* C21.  format_response changes the conversation history only, by         *)
(* appending its one reply: intent, search_query, selected_food,           *)
(* nutrition_data, current_daily_totals and every other channel, and both  *)
(* ledger tables, are after it what they were before it.                   *)
(***************************************************************************)
C21_FormatResponseFrame ==
    [][\A s \in Sessions :
        (pc[s] = "format_response" /\ Steps(s))
        => /\ \A k \in OtherChannels : state'[s][k] = state[s][k]
           /\ UNCHANGED <<users, food_logs, daily_totals, tx>>
           /\ config'[s] = config[s]
           /\ pc'[s] \in {"END", "raised"}
           /\ pc'[s] = "END"
                => /\ Len(state'[s].messages) = Len(state[s].messages) + 1
                   /\ IsPrefix(state[s].messages, state'[s].messages)
                   /\ Last(state'[s].messages).role = "ai"
           /\ pc'[s] = "raised"
                => state'[s].messages = state[s].messages]_vars

\* format_response has replied to a log_food turn whose record was resolved
\* but not written: the record is still in the context, after two messages
\* of the turn.
C21_Witness ==
    \E s \in Sessions :
        /\ pc[s] = "END"
        /\ state[s].intent = PyStr("log_food")
        /\ state[s].nutrition_data # PyNone
        /\ state[s].selected_food = EggHit
        /\ Len(state[s].messages) = 3
        /\ food_logs # {}

(***************************************************************************)
(* C22.  The conversation history is append-only throughout a turn: every  *)
(* step of the turn leaves the history it found as a prefix of the history *)
(* it leaves, so the history the turn started with is a prefix of the      *)
(* history at every step; and at END the last message is the one           *)
(* format_response appended.                                               *)
(***************************************************************************)
C22_HistoryAppendOnly ==
    /\ [][\A s \in Sessions :
            (Steps(s) /\ pc[s] \notin {"idle", "END", "raised"})
            => IsPrefix(state[s].messages, state'[s].messages)]_vars
    /\ [][\A s \in Sessions :
            (pc[s] = "format_response" /\ pc'[s] = "END")
            => /\ state'[s].messages # <<>>
               /\ Last(state'[s].messages) \notin
                    {state[s].messages[i] : i \in 1..Len(state[s].messages)}
               /\ "prompt" \in DOMAIN Last(state'[s].messages).content]_vars
    /\ [](\A s \in Sessions :
            pc[s] = "END"
            => /\ Last(ran[s]) = "format_response"
               /\ Last(state[s].messages).role = "ai"
               /\ "prompt" \in DOMAIN Last(state[s].messages).content)

\* A chat turn has ended: the user's message is still first and the reply
\* to it is last.
C22_Witness ==
    \E s \in Sessions :
        /\ pc[s] = "END"
        /\ state[s].intent = PyStr("chat")
        /\ state[s].messages[1] = HumanMessage("I ate 2 large eggs")
        /\ Last(state[s].messages)
             = Completion([kind |-> "reply",
                           last_content |-> [text |-> "I ate 2 large eggs"]])

(***************************************************************************)
(* C23.  A food_logs row is immutable once written: whatever turns and     *)
(* ledger operations follow (writes that commit, writes that fail and are  *)
(* rolled back, reads), every committed row is still there with the values *)
(* it was written with, and no other row takes its log_id.                 *)
(***************************************************************************)
C23_LogRowsImmutable ==
    [][\A r \in food_logs :
        /\ r \in food_logs'
        /\ \A other \in food_logs' : other.log_id = r.log_id => other = r]_vars

\* Beside two committed rows a write has failed and been answered, and
\* another turn has read the totals after its own write.
C23_Witness ==
    /\ Cardinality(food_logs) = 2
    /\ \E s \in Sessions : Said(s, SaveFailedMessage)
    /\ \E s \in Sessions :
          /\ state[s].current_daily_totals # PyNone
          /\ pc[s] = "format_response"

(***************************************************************************)
(* C24.  A daily_totals row is never deleted and never decremented: on     *)
(* every step of every execution a row that exists for (user_id, date)     *)
(* still exists afterwards and its entries_count has not decreased.        *)
(***************************************************************************)
C24_TotalsNeverDecrease ==
    [][\A t \in daily_totals :
        \E after \in daily_totals' :
            /\ after.user_id = t.user_id
            /\ after.date = t.date
            /\ after.entries_count >= t.entries_count]_vars

\* A day's row counts three entries, and a turn that wrote one has ended.
C24_Witness ==
    /\ \E t \in daily_totals : t.entries_count = 3
    /\ \E s \in Sessions : pc[s] = "END" \/ pc[s] = "raised"

(***************************************************************************)
(* C25.  Concurrent turns each own their AgentState: no step of one turn   *)
(* changes the intent, search_query, selected_food, nutrition_data,        *)
(* error_context or messages of another turn (nor any other channel, its   *)
(* config or its position); the ledger tables are all two turns share.     *)
(***************************************************************************)
C25_TurnsOwnTheirState ==
    [][\A s \in Sessions :
        Steps(s)
        => \A other \in Sessions \ {s} :
              /\ state'[other] = state[other]
              /\ config'[other] = config[other]
              /\ entry'[other] = entry[other]
              /\ pc'[other] = pc[other]
              /\ ran'[other] = ran[other]
              /\ exception'[other] = exception[other]]_vars

\* Two turns are under way with different intents and records: one is
\* writing an estimate while the other, a chat turn, is about to reply.
C25_Witness ==
    \E s \in Sessions, other \in Sessions :
        /\ pc[s] = "upsert_daily_totals"
        /\ state[s].intent = PyStr("log_food")
        /\ state[s].nutrition_data # PyNone
        /\ pc[other] = "format_response"
        /\ state[other].intent = PyStr("chat")
        /\ state[other].nutrition_data = PyNone
        /\ state[other].search_query = PyNone

\* The committed food_logs rows that carry the log_id of the session's
\* entry: the rows its turn has written.
RowsOfTurn(s) ==
    IF entry[s] = NoEntry
    THEN {}
    ELSE {r \in food_logs : r.log_id = entry[s].log_id}

(***************************************************************************)
(* C26.  A turn writes at most one food_logs row: over the whole turn the  *)
(* number of rows grows by 0 or 1, and by 1 only when the intent is        *)
(* log_food, a user id is present and the write has committed.             *)
(***************************************************************************)
C26_OneRowPerTurn ==
    /\ [](\A s \in Sessions :
            /\ Cardinality(RowsOfTurn(s)) <= 1
            /\ Times(s, "update_database") <= 1
            /\ RowsOfTurn(s) # {}
                => /\ entry[s].committed
                   /\ state[s].intent = PyStr("log_food")
                   /\ config[s].py = "int"
                   /\ config[s].int # 0
                   /\ \A r \in RowsOfTurn(s) : r.user_id = config[s].int)
    /\ [][\A s \in Sessions :
            Steps(s)
            => /\ food_logs \subseteq food_logs'
               /\ Cardinality(food_logs' \ food_logs) <= 1
               /\ food_logs' # food_logs
                    => /\ pc[s] = "commit"
                       /\ RowsOfTurn(s) = {}
                       /\ entry'[s].committed
                       /\ \A r \in food_logs' \ food_logs :
                             r.log_id = entry[s].log_id
               /\ (entry[s] # NoEntry
                        /\ pc[s] \notin {"idle", "END", "raised"})
                    => entry'[s].log_id = entry[s].log_id]_vars

\* Three turns have run: two wrote one row each, and the third, a chat
\* turn, has ended without a row.
C26_Witness ==
    /\ Cardinality(food_logs) = 2
    /\ turns = MaxTurns
    /\ \E s \in Sessions :
          /\ pc[s] = "END"
          /\ state[s].intent = PyStr("chat")
          /\ RowsOfTurn(s) = {}
    /\ \E s \in Sessions :
          /\ pc[s] = "raised"
          /\ Cardinality(RowsOfTurn(s)) = 1

(***************************************************************************)
(* C27.  The snapshot of a successful log turn is read in a step of its    *)
(* own, after the write has committed, for the (user_id, date) the write   *)
(* updated.  From the commit to the read the row of that key exists and    *)
(* its entries_count does not decrease; the read takes the row as it then  *)
(* is, which counts this turn's own row (entries_count at least 1, and     *)
(* every row logged for the key).  The witness shows that it may count     *)
(* rows that other turns committed after this turn's commit.               *)
(***************************************************************************)
C27_SnapshotReadAfterCommit ==
    [][\A s \in Sessions :
        pc[s] = "get_daily_summary"
        => LET user_id == entry[s].user_id
               date == date_str(entry[s].timestamp)
               before == TotalsOf(user_id, date)
           IN /\ entry[s].committed
              /\ tx.owner # s
              /\ state[s].current_daily_totals = PyNone
              /\ Cardinality(before) = 1
              /\ RowsOfTurn(s) \subseteq LogsOf(user_id, date)
              /\ RowsOfTurn(s) # {}
              /\ \A b \in before :
                    /\ \E a \in daily_totals' :
                          /\ a.user_id = user_id
                          /\ a.date = date
                          /\ a.entries_count >= b.entries_count
                    /\ Steps(s)
                        => /\ state'[s].current_daily_totals
                                = [py |-> "dict", dict |-> b]
                           /\ b.entries_count >= 1
                           /\ b.entries_count
                                = Cardinality(LogsOf(user_id, date))
                           /\ UNCHANGED <<food_logs, daily_totals, tx>>]_vars

\* Two turns, the only ones so far, have logged for the same key and both
\* have read a snapshot of two entries: the one that committed first has
\* read the entry the other committed after it.
C27_Witness ==
    /\ turns = 2
    /\ Cardinality(food_logs) = 2
    /\ \A s \in Sessions :
          /\ pc[s] = "format_response"
          /\ state[s].current_daily_totals # PyNone
          /\ state[s].current_daily_totals.dict.entries_count = 2

\* The turn of the session was started with an empty history: it has no
\* message, or only the reply format_response appended.
StartedEmpty(s) ==
    /\ pc[s] # "idle"
    /\ \/ state[s].messages = <<>>
       \/ state[s].messages[1].role = "ai"

(***************************************************************************)
(* C28.  In a turn run with an empty history analyze_request sets intent   *)
(* chat and no search_query without calling the classifier (so that no     *)
(* failure of that call can reach the turn), and the turn goes straight to *)
(* format_response: no lookup, no estimate, no ledger write.               *)
(***************************************************************************)
C28_EmptyHistoryIsChat ==
    /\ [](\A s \in Sessions :
            (StartedEmpty(s) /\ "analyze_request" \in Nodes(s))
            => /\ state[s].intent = PyStr("chat")
               /\ state[s].search_query = PyNone
               /\ state[s].historical_query = PyNone
               /\ Nodes(s) \subseteq {"analyze_request", "format_response"}
               /\ pc[s] \in {"format_response", "END", "raised"}
               /\ pc[s] = "raised"
                    => /\ Last(ran[s]) = "format_response"
                       /\ exception[s] = "APIConnectionError"
               /\ lookup[s] = "none"
               /\ found[s] = NotAsked
               /\ estimate[s] = <<>>
               /\ entry[s] = NoEntry
               /\ state[s].current_daily_totals = PyNone)
    /\ [][\A s \in Sessions :
            (StartedEmpty(s) /\ Steps(s) /\ StartedEmpty(s)')
            => UNCHANGED <<food_logs, daily_totals, tx>>]_vars

\* A turn without history has ended with the reply to "Hello" as its only
\* message, beside rows of earlier turns.
C28_Witness ==
    \E s \in Sessions :
        /\ pc[s] = "END"
        /\ state[s].messages
             = <<Completion([kind |-> "reply",
                             last_content |-> [text |-> "Hello"]])>>
        /\ state[s].intent = PyStr("chat")
        /\ food_logs # {}

(***************************************************************************)
(* C29.  update_database treats the user id 0 as a missing user id: run    *)
(* with user id 0 it attempts no write, answers as for a missing id and    *)
(* leaves current_daily_totals unset; run with any other user id and a     *)
(* nutrition record it calls log_food_entry, which goes on to              *)
(* insert_food_log unless the record fails the validation of the tool's    *)
(* arguments.                                                              *)
(***************************************************************************)
C29_ZeroUserIdIsMissing ==
    [][\A s \in Sessions :
        (pc[s] = "update_database" /\ Steps(s))
        => /\ state[s].nutrition_data # PyNone
           /\ config[s] \in {PyNone, PyInt(0)}
                => /\ pc'[s] = "format_response"
                   /\ entry'[s] = NoEntry
                   /\ state'[s].messages
                        = Append(state[s].messages, NoUserMessage)
                   /\ state'[s].current_daily_totals = PyNone
                   /\ UNCHANGED <<food_logs, daily_totals, tx>>
           /\ config[s] \notin {PyNone, PyInt(0)}
                => /\ config[s].py = "int"
                   /\ ~Said(s, NoUserMessage)'
                   /\ \/ /\ pc'[s] = "insert_food_log"
                         /\ entry'[s] # NoEntry
                         /\ entry'[s].user_id = config[s].int
                      \/ /\ pc'[s] = "raised"
                         /\ exception'[s] = "ValidationError"
                         /\ \E k \in DOMAIN state[s].nutrition_data.dict :
                               state[s].nutrition_data.dict[k] = PyNone]_vars

\* A log_food turn run with user id 0 has been answered as one without a
\* user id, while the user with id 1 has rows.
C29_Witness ==
    \E s \in Sessions :
        /\ config[s] = PyInt(0)
        /\ pc[s] = "format_response"
        /\ Said(s, NoUserMessage)
        /\ state[s].nutrition_data # PyNone
        /\ entry[s] = NoEntry
        /\ \E r \in food_logs : r.user_id = 1
====
